---- MODULE Spec2Model ----
(***************************************************************************)
(* A model of the two components of the repository:                        *)
(*   - utils.py:      judge_sql_similarity and the evaluate loop           *)
(*   - lang_graph.py: the Agent workflow (llm node, action node, routing)  *)
(* The evaluation harness is explored under EvalSpec, the agent workflow   *)
(* under AgentSpec.                                                        *)
(*                                                                         *)
(* Python strings that the code trims or case-folds are sequences of       *)
(* one-character strings; Python values are tagged records.                *)
(***************************************************************************)
EXTENDS Integers, Sequences, FiniteSets, TLC

VARIABLES
    \* ---- evaluate (utils.py) ----
    test_cases,      \* the argument of evaluate: a sequence of test cases
    results,         \* the list evaluate accumulates
    idx,             \* position of the for loop in test_cases (1-based)
    pc,              \* position of evaluate inside the loop body
    nlq,             \* local: case['question']
    expected_sql,    \* local: case['actual_query']
    generated_sql,   \* local: what get_sql returned
    exact_match,     \* local
    llm_judgment,    \* local
    err,             \* the exception the outer handler caught (or is about to)
    returned,        \* what evaluate returned to its caller
    events,          \* the external calls made for the current case, in order
    \* ---- Agent (lang_graph.py) ----
    system,          \* self.system
    tool_list,       \* the tools argument of Agent.__init__
    tools,           \* self.tools: name -> tool
    messages,        \* AgentState['messages']
    node,            \* the node of the graph the run is at
    status,          \* "idle" | "running" | "raised" | "returned"
    output,          \* what graph.invoke returned
    initial,         \* the input of the current run
    model_calls,     \* model.invoke calls of the current run
    model_input,     \* the argument of the last model.invoke call
    tool_log,        \* tool invocations of the current run, in order
    acted            \* take_action executions of the current run

evalVars == <<test_cases, results, idx, pc, nlq, expected_sql, generated_sql,
              exact_match, llm_judgment, err, returned, events>>
agentVars == <<system, tool_list, tools, messages, node, status, output,
               initial, model_calls, model_input, tool_log, acted>>
vars == <<evalVars, agentVars>>

\* ------------------------------------------------------------------ bounds
\* Longest list of test cases evaluate is run on.
MaxCases == 2
\* Longest conversation a behaviour of the agent builds.
MaxMsgs == 5

\* ------------------------------------------------------- Python values
PyNone == [t |-> "none"]
PyStr(s) == [t |-> "str", v |-> s]
PyList(xs) == [t |-> "list", v |-> xs]
PyInt(n) == [t |-> "int", v |-> n]

\* Python truthiness of None, a string, a list.
Truthy(x) ==
    CASE x.t = "none" -> FALSE
      [] x.t = "str" -> x.v # <<>>
      [] x.t = "list" -> x.v # <<>>
      [] OTHER -> TRUE

\* ------------------------------------------------------- Python strings
Whitespace == {" ", "\n"}

RECURSIVE LStrip(_)
LStrip(s) ==
    IF s # <<>> /\ Head(s) \in Whitespace THEN LStrip(Tail(s)) ELSE s

RECURSIVE RStrip(_)
RStrip(s) ==
    IF s # <<>> /\ s[Len(s)] \in Whitespace
    THEN RStrip(SubSeq(s, 1, Len(s) - 1))
    ELSE s

\* str.strip()
Strip(s) == RStrip(LStrip(s))

LowerChar(c) ==
    CASE c = "A" -> "a"
      [] c = "B" -> "b"
      [] OTHER -> c

\* str.lower()
Lower(s) == [i \in 1..Len(s) |-> LowerChar(s[i])]

\* The literals of utils.py.
S_Equivalent == <<"E","q","u","i","v","a","l","e","n","t">>
S_NotEquivalent == <<"N","o","t"," ">> \o S_Equivalent
S_Error == <<"E","r","r","o","r">>
NoSqlError == "Agent returned no SQL."

\* ------------------------------------------------------- inputs of evaluate
\* Reference and generated SQL texts: letters in both cases, padding on
\* either side, whitespace only, a trailing semicolon, a different query.
CaseSet ==
    { [question |-> "q1", actual_query |-> <<"a">>],
      [question |-> "q2", actual_query |-> <<"A", " ">>],
      [question |-> "q3", actual_query |-> <<" ">>] }

RECURSIVE SeqsUpTo(_, _)
SeqsUpTo(S, n) ==
    IF n = 0 THEN {<<>>}
    ELSE LET shorter == SeqsUpTo(S, n - 1)
         IN  shorter \cup {Append(s, x) : s \in shorter, x \in S}

GeneratedTexts ==
    { <<"a">>, <<" ", "A">>, <<"a", ";">>, <<"b">>, <<"\n">> }

\* What one call of sql_helper.get_sql can do: raise, or return None, an
\* empty list, a list whose first element is None or "", or a list whose
\* first element is an SQL text.
Raise(e) == [raises |-> TRUE, err |-> e]
Return(v) == [raises |-> FALSE, value |-> v]

GetSqlOutcomes ==
    { Raise("timeout") }
    \cup { Return(PyNone), Return(PyList(<<>>)),
           Return(PyList(<<PyNone>>)), Return(PyList(<<PyStr(<<>>)>>)) }
    \cup { Return(PyList(<<PyStr(g)>>)) : g \in GeneratedTexts }

\* What the chat completion inside judge_sql_similarity can do: raise, or
\* answer with some text.
JudgeReplies ==
    { S_Equivalent, S_NotEquivalent,
      <<" ">> \o S_Equivalent \o <<"\n">>,
      <<"Y","e","s">> }

JudgeOutcomes == { Raise("api error") } \cup { Return(r) : r \in JudgeReplies }

\* ------------------------------------------------------- utils.py
\* Variant of judge_sql_similarity: no handler around the completion call.
judge_sql_similarity_Unguarded(q, sql1, sql2, out) ==
    IF out.raises THEN out ELSE Return(Strip(out.value))

\* judge_sql_similarity, given what the completion call did.
judge_sql_similarity(q, sql1, sql2, out) ==
    IF out.raises THEN Return(S_Error) ELSE Return(Strip(out.value))

\* Variant of ExactMatch: the comparison keeps the letter case.
ExactMatch_CaseSensitive(gen, expected) == Strip(gen) = Strip(expected)

\* Variant of ExactMatch: a trailing semicolon is dropped before comparing.
ExactMatch_NoSemicolon(gen, expected) ==
    LET Norm(s) ==
            LET t == Lower(Strip(s))
            IN  IF t # <<>> /\ t[Len(t)] = ";"
                THEN SubSeq(t, 1, Len(t) - 1)
                ELSE t
    IN  Norm(gen) = Norm(expected)

\* generated_sql[0].strip().lower() == expected_sql.strip().lower()
ExactMatch(gen, expected) == Lower(Strip(gen)) = Lower(Strip(expected))

\* Variant of NoSql: an empty first element passes, only None is refused.
NoSql_NoneOnly(g) == ~Truthy(g) \/ g.v[1].t = "none"

\* not generated_sql or not generated_sql[0]
NoSql(g) == ~Truthy(g) \/ ~Truthy(g.v[1])

SleepEv(n) == [op |-> "sleep", secs |-> n]
GetSqlEv(q, out) == [op |-> "get_sql", nlq |-> q, out |-> out]
JudgeEv(q, sql1, sql2, out) ==
    [op |-> "judge", nlq |-> q, sql1 |-> sql1, sql2 |-> sql2, out |-> out]

SuccessRecord(q, e, g, m, j) ==
    [question |-> q, expected_sql |-> e, generated_sql |-> g,
     exact_match |-> m, llm_judged_equivalent |-> j]

FailureRecord(q, e, msg) ==
    [question |-> q, expected_sql |-> e, generated_sql |-> PyNone,
     exact_match |-> FALSE, llm_judged_equivalent |-> PyNone, error |-> msg]

EvalStart ==
    /\ test_cases \in SeqsUpTo(CaseSet, MaxCases)
    /\ results = <<>>
    /\ idx = 1
    /\ pc = "loop"
    /\ nlq = PyNone
    /\ expected_sql = PyNone
    /\ generated_sql = PyNone
    /\ exact_match = FALSE
    /\ llm_judgment = PyNone
    /\ err = PyNone
    /\ returned = PyNone
    /\ events = <<>>

\* Variant of LoopHead: the pause before the case is missing.
LoopHead_NoSleep ==
    /\ pc = "loop"
    /\ idx <= Len(test_cases)
    /\ events' = <<>>
    /\ nlq' = test_cases[idx].question
    /\ expected_sql' = test_cases[idx].actual_query
    /\ pc' = "get_sql"
    /\ UNCHANGED <<test_cases, results, idx, generated_sql, exact_match,
                   llm_judgment, err, returned>>
    /\ UNCHANGED agentVars

\* for case in test_cases: time.sleep(2); nlq = ...; expected_sql = ...
LoopHead ==
    /\ pc = "loop"
    /\ idx <= Len(test_cases)
    /\ events' = <<SleepEv(2)>>
    /\ nlq' = test_cases[idx].question
    /\ expected_sql' = test_cases[idx].actual_query
    /\ pc' = "get_sql"
    /\ UNCHANGED <<test_cases, results, idx, generated_sql, exact_match,
                   llm_judgment, err, returned>>
    /\ UNCHANGED agentVars

\* The first attempt: generated_sql = sql_helper.get_sql(nlq)
GetSqlFirst ==
    /\ pc = "get_sql"
    /\ \E out \in GetSqlOutcomes :
        /\ events' = Append(events, GetSqlEv(nlq, out))
        /\ IF out.raises
           THEN /\ pc' = "retry"
                /\ UNCHANGED generated_sql
           ELSE /\ pc' = "validate"
                /\ generated_sql' = out.value
    /\ UNCHANGED <<test_cases, results, idx, nlq, expected_sql, exact_match,
                   llm_judgment, err, returned>>
    /\ UNCHANGED agentVars

\* Variant of GetSqlRetry: a failed retry is retried again.
GetSqlRetry_Again ==
    /\ pc = "retry"
    /\ \E out \in GetSqlOutcomes :
        /\ events' = events \o <<SleepEv(4), GetSqlEv(nlq, out)>>
        /\ IF out.raises
           THEN /\ pc' = "retry"
                /\ UNCHANGED generated_sql
           ELSE /\ pc' = "validate"
                /\ generated_sql' = out.value
    /\ UNCHANGED <<test_cases, results, idx, nlq, expected_sql, exact_match,
                   llm_judgment, err, returned>>
    /\ UNCHANGED agentVars

\* The inner handler: time.sleep(4); generated_sql = sql_helper.get_sql(nlq)
GetSqlRetry ==
    /\ pc = "retry"
    /\ \E out \in GetSqlOutcomes :
        /\ events' = events \o <<SleepEv(4), GetSqlEv(nlq, out)>>
        /\ IF out.raises
           THEN /\ pc' = "except"
                /\ err' = out.err
                /\ UNCHANGED generated_sql
           ELSE /\ pc' = "validate"
                /\ generated_sql' = out.value
                /\ UNCHANGED err
    /\ UNCHANGED <<test_cases, results, idx, nlq, expected_sql, exact_match,
                   llm_judgment, returned>>
    /\ UNCHANGED agentVars

\* Variant of Validate: a result without SQL is handled like a raised call.
Validate_Retry ==
    /\ pc = "validate"
    /\ IF NoSql(generated_sql)
       THEN /\ pc' = "retry"
            /\ UNCHANGED <<exact_match, llm_judgment, err>>
       ELSE /\ exact_match' = ExactMatch(generated_sql.v[1].v, expected_sql)
            /\ llm_judgment' = PyNone
            /\ pc' = IF exact_match' THEN "append" ELSE "judge"
            /\ UNCHANGED err
    /\ UNCHANGED <<test_cases, results, idx, nlq, expected_sql, generated_sql,
                   returned, events>>
    /\ UNCHANGED agentVars

\* The check of the result, the comparison, llm_judgment = None
Validate ==
    /\ pc = "validate"
    /\ IF NoSql(generated_sql)
       THEN /\ pc' = "except"
            /\ err' = NoSqlError
            /\ UNCHANGED <<exact_match, llm_judgment>>
       ELSE /\ exact_match' = ExactMatch(generated_sql.v[1].v, expected_sql)
            /\ llm_judgment' = PyNone
            /\ pc' = IF exact_match' THEN "append" ELSE "judge"
            /\ UNCHANGED err
    /\ UNCHANGED <<test_cases, results, idx, nlq, expected_sql, generated_sql,
                   returned, events>>
    /\ UNCHANGED agentVars

\* if not exact_match: the judge call, and its handler (sleep, second call)
Judge ==
    /\ pc = "judge"
    /\ \E out1 \in JudgeOutcomes, out2 \in JudgeOutcomes :
        LET g == generated_sql.v[1].v
            r1 == judge_sql_similarity(nlq, expected_sql, g, out1)
            r2 == judge_sql_similarity(nlq, expected_sql, g, out2)
            ev1 == JudgeEv(nlq, expected_sql, g, out1)
            ev2 == JudgeEv(nlq, expected_sql, g, out2)
        IN  IF ~r1.raises
            THEN /\ events' = Append(events, ev1)
                 /\ llm_judgment' = PyStr(r1.value)
                 /\ pc' = "append"
                 /\ UNCHANGED err
            ELSE /\ events' = events \o <<ev1, SleepEv(4), ev2>>
                 /\ IF ~r2.raises
                    THEN /\ llm_judgment' = PyStr(r2.value)
                         /\ pc' = "append"
                         /\ UNCHANGED err
                    ELSE /\ pc' = "except"
                         /\ err' = r2.err
                         /\ UNCHANGED llm_judgment
    /\ UNCHANGED <<test_cases, results, idx, nlq, expected_sql, generated_sql,
                   exact_match, returned>>
    /\ UNCHANGED agentVars

\* results.append({...}) at the end of the try block
AppendSuccess ==
    /\ pc = "append"
    /\ results' = Append(results,
                         SuccessRecord(nlq, expected_sql, generated_sql.v[1],
                                       exact_match, llm_judgment))
    /\ idx' = idx + 1
    /\ pc' = "loop"
    /\ UNCHANGED <<test_cases, nlq, expected_sql, generated_sql, exact_match,
                   llm_judgment, err, returned, events>>
    /\ UNCHANGED agentVars

\* Variant of AppendFailure: the handler lets the exception go.
AppendFailure_Reraise ==
    /\ pc = "except"
    /\ pc' = "aborted"
    /\ UNCHANGED <<test_cases, results, idx, nlq, expected_sql, generated_sql,
                   exact_match, llm_judgment, err, returned, events>>
    /\ UNCHANGED agentVars

\* except Exception as err: results.append({... "error": str(err)})
AppendFailure ==
    /\ pc = "except"
    /\ results' = Append(results, FailureRecord(nlq, expected_sql, err))
    /\ idx' = idx + 1
    /\ pc' = "loop"
    /\ UNCHANGED <<test_cases, nlq, expected_sql, generated_sql, exact_match,
                   llm_judgment, err, returned, events>>
    /\ UNCHANGED agentVars

\* return results
ReturnResults ==
    /\ pc = "loop"
    /\ idx > Len(test_cases)
    /\ returned' = PyList(results)
    /\ pc' = "returned"
    /\ UNCHANGED <<test_cases, results, idx, nlq, expected_sql, generated_sql,
                   exact_match, llm_judgment, err, events>>
    /\ UNCHANGED agentVars

AgentIdle ==
    /\ system = ""
    /\ tool_list = <<>>
    /\ tools = <<>>
    /\ messages = <<>>
    /\ node = "llm"
    /\ status = "idle"
    /\ output = PyNone
    /\ initial = <<>>
    /\ model_calls = 0
    /\ model_input = <<>>
    /\ tool_log = <<>>
    /\ acted = 0

EvalNext ==
    \/ LoopHead
    \/ GetSqlFirst
    \/ GetSqlRetry
    \/ Validate
    \/ Judge
    \/ AppendSuccess
    \/ AppendFailure
    \/ ReturnResults

\* evaluate is entered with its argument; no agent run is in progress.
EvalInit == EvalStart /\ AgentIdle

EvalSpec == EvalInit /\ [][EvalNext]_vars

\* ------------------------------------------------------- lang_graph.py
\* Message contents of the agent are not trimmed or folded by the code and
\* are kept as plain strings.
HumanMessage(c) == [type |-> "human", content |-> c]
SystemMessage(c) == [type |-> "system", content |-> c]
AIMessage(calls) == [type |-> "ai", content |-> "", tool_calls |-> calls]
ToolMessage(id, name, content) ==
    [type |-> "tool", tool_call_id |-> id, name |-> name, content |-> content]
ToolCall(n, a, id) == [name |-> n, args |-> a, id |-> id]

\* A tool object: its name and the callable behind it.
Tool(n, k) == [name |-> n, impl |-> k]

ToolNames == {"a", "b"}
ArgSet == {"x", "y"}
Systems == {"", "sys"}

\* Tool lists an agent is built from: two tools, two tools sharing a name,
\* one tool (so that "b" names no tool).
ToolLists ==
    { <<Tool("a", 1), Tool("b", 2)>>,
      <<Tool("a", 1), Tool("a", 2)>>,
      <<Tool("a", 1)>> }

\* Inputs of a run: a question, a finished conversation, a conversation
\* whose last message carries a tool call (identifier 0, which no response
\* of the model reuses).
Seeds ==
    { <<HumanMessage("q")>>,
      <<HumanMessage("q"), AIMessage(<<>>)>>,
      <<HumanMessage("q"), AIMessage(<<ToolCall("a", "x", 0)>>)>> }

\* Variant of Registry: the first tool supplied under a name is kept.
Registry_First(ts) ==
    [n \in {ts[i].name : i \in 1..Len(ts)} |->
        ts[CHOOSE i \in 1..Len(ts) :
              /\ ts[i].name = n
              /\ \A j \in 1..(i - 1) : ts[j].name # n]]

\* self.tools = {tool.name: tool for tool in tools}
Registry(ts) ==
    [n \in {ts[i].name : i \in 1..Len(ts)} |->
        ts[CHOOSE i \in 1..Len(ts) :
              /\ ts[i].name = n
              /\ \A j \in (i + 1)..Len(ts) : ts[j].name # n]]

\* Variant of Add: the update replaces the channel (no reducer).
Add_Replace(old, new) == new

\* operator.add, the reducer of AgentState['messages']
Add(old, new) == old \o new

\* str(result)
PyStrOf(v) ==
    CASE v.t = "none" -> "None"
      [] v.t = "int" -> ToString(v.v)
      [] OTHER -> v.v

\* What tool.invoke(args) can do: raise, or return a value.
ToolOutcomes == { Raise("tool failed"), Return(PyInt(7)), Return(PyNone) }

\* The tool calls a model response can carry: n calls, any names and
\* arguments, identifiers unique within the message.
ToolCallSeqs(n) ==
    { [i \in 1..n |-> ToolCall(nm[i], ar[i], id[i])] :
        nm \in [1..n -> ToolNames],
        ar \in [1..n -> ArgSet],
        id \in {p \in [1..n -> 1..n] : \A i, j \in 1..n : p[i] = p[j] => i = j} }

\* What model.invoke can do when at most `room` tool calls fit the bound.
ModelOutcomes(room) ==
    { Raise("model failed") }
    \cup { Return(AIMessage(calls)) :
             calls \in UNION { ToolCallSeqs(n) : n \in 0..room } }

\* Variants of exists_action: always route to the action node; ask for more
\* than one tool call.
exists_action_Always(msgs) == TRUE

exists_action_MoreThanOne(msgs) == Len(msgs[Len(msgs)].tool_calls) > 1

\* exists_action
exists_action(msgs) == Len(msgs[Len(msgs)].tool_calls) > 0

\* Variant of ModelInput: the system prompt is not prepended.
ModelInput_NoSystem(sys, msgs) == msgs

\* The messages call_openai hands to the model.
ModelInput(sys, msgs) ==
    IF sys # "" THEN <<SystemMessage(sys)>> \o msgs ELSE msgs

\* take_action: the tool call at which the loop raises (an unknown name, or
\* a tool that raises), 0 when the loop completes.
FirstFailure(reg, tool_calls, outs) ==
    LET bad == { i \in 1..Len(tool_calls) :
                   tool_calls[i].name \notin DOMAIN reg \/ outs[i].raises }
    IN  IF bad = {} THEN 0 ELSE CHOOSE i \in bad : \A j \in bad : i <= j

\* Variant of ToolResults: only the first result is collected.
ToolResults_OnlyFirst(tool_calls, outs) ==
    [i \in 1..(IF Len(tool_calls) > 0 THEN 1 ELSE 0) |->
        ToolMessage(tool_calls[i].id, tool_calls[i].name,
                    PyStrOf(outs[i].value))]

\* Variant of ToolResults: the results are collected last call first.
ToolResults_Reversed(tool_calls, outs) ==
    [i \in 1..Len(tool_calls) |->
        LET j == Len(tool_calls) + 1 - i
        IN  ToolMessage(tool_calls[j].id, tool_calls[j].name,
                        PyStrOf(outs[j].value))]

\* take_action: the ToolMessages of a loop that completed.
ToolResults(tool_calls, outs) ==
    [i \in 1..Len(tool_calls) |->
        ToolMessage(tool_calls[i].id, tool_calls[i].name,
                    PyStrOf(outs[i].value))]

\* take_action: the invocations self.tools[t['name']].invoke(t['args'])
\* made for the first k tool calls, each with what it did.
Invocations(reg, tool_calls, outs, k) ==
    [i \in 1..k |-> [tool |-> reg[tool_calls[i].name],
                     args |-> tool_calls[i].args,
                     id |-> tool_calls[i].id,
                     out |-> outs[i]]]

\* Agent.__init__ has run; no run yet.
AgentStart ==
    /\ system \in Systems
    /\ tool_list \in ToolLists
    /\ tools = Registry(tool_list)
    /\ messages = <<>>
    /\ node = "llm"
    /\ status = "idle"
    /\ output = PyNone
    /\ initial = <<>>
    /\ model_calls = 0
    /\ model_input = <<>>
    /\ tool_log = <<>>
    /\ acted = 0

\* Variant of Invoke: a run whose input ends with pending tool calls starts
\* at the action node.
Invoke_Resume ==
    /\ status \in {"idle", "returned"}
    /\ \E input \in (IF status = "idle" THEN Seeds ELSE {output.v}) :
        /\ messages' = Add(<<>>, input)
        /\ initial' = input
        /\ node' = IF /\ input[Len(input)].type = "ai"
                      /\ input[Len(input)].tool_calls # <<>>
                   THEN "action" ELSE "llm"
    /\ status' = "running"
    /\ output' = PyNone
    /\ model_calls' = 0
    /\ model_input' = <<>>
    /\ tool_log' = <<>>
    /\ acted' = 0
    /\ UNCHANGED <<system, tool_list, tools>>
    /\ UNCHANGED evalVars

\* graph.invoke({'messages': input}): a first run on a seed, or a further
\* run on the conversation the previous run returned.
Invoke ==
    /\ status \in {"idle", "returned"}
    /\ \E input \in (IF status = "idle" THEN Seeds ELSE {output.v}) :
        /\ messages' = Add(<<>>, input)
        /\ initial' = input
    /\ node' = "llm"
    /\ status' = "running"
    /\ output' = PyNone
    /\ model_calls' = 0
    /\ model_input' = <<>>
    /\ tool_log' = <<>>
    /\ acted' = 0
    /\ UNCHANGED <<system, tool_list, tools>>
    /\ UNCHANGED evalVars

\* Variant of CallOpenai: the model is called once per run.
CallOpenai_Limited ==
    /\ status = "running"
    /\ node = "llm"
    /\ model_calls < 1
    /\ Len(messages) < MaxMsgs
    /\ \E out \in ModelOutcomes(MaxMsgs - Len(messages) - 1) :
        /\ model_input' = ModelInput(system, messages)
        /\ model_calls' = model_calls + 1
        /\ IF out.raises
           THEN /\ status' = "raised"
                /\ UNCHANGED <<messages, node, output>>
           ELSE /\ messages' = Add(messages, <<out.value>>)
                /\ IF exists_action(messages')
                   THEN /\ node' = "action"
                        /\ UNCHANGED <<status, output>>
                   ELSE /\ node' = "END"
                        /\ status' = "returned"
                        /\ output' = PyList(messages')
    /\ UNCHANGED <<system, tool_list, tools, initial, tool_log, acted>>
    /\ UNCHANGED evalVars

\* The llm node and the conditional edge out of it.
CallOpenai ==
    /\ status = "running"
    /\ node = "llm"
    /\ Len(messages) < MaxMsgs
    /\ \E out \in ModelOutcomes(MaxMsgs - Len(messages) - 1) :
        /\ model_input' = ModelInput(system, messages)
        /\ model_calls' = model_calls + 1
        /\ IF out.raises
           THEN /\ status' = "raised"
                /\ UNCHANGED <<messages, node, output>>
           ELSE /\ messages' = Add(messages, <<out.value>>)
                /\ IF exists_action(messages')
                   THEN /\ node' = "action"
                        /\ UNCHANGED <<status, output>>
                   ELSE /\ node' = "END"
                        /\ status' = "returned"
                        /\ output' = PyList(messages')
    /\ UNCHANGED <<system, tool_list, tools, initial, tool_log, acted>>
    /\ UNCHANGED evalVars

\* Variant of TakeAction: a failing call ends the loop, and the results
\* collected before it are returned as the step's update.
TakeAction_Swallow ==
    /\ status = "running"
    /\ node = "action"
    /\ LET tool_calls == messages[Len(messages)].tool_calls
       IN  \E outs \in [1..Len(tool_calls) -> ToolOutcomes] :
            LET k == FirstFailure(tools, tool_calls, outs)
            IN  IF k = 0
                THEN /\ messages' = Add(messages, ToolResults(tool_calls, outs))
                     /\ tool_log' = tool_log \o
                            Invocations(tools, tool_calls, outs, Len(tool_calls))
                ELSE /\ messages' = Add(messages,
                            ToolResults(SubSeq(tool_calls, 1, k - 1), outs))
                     /\ tool_log' = tool_log \o
                            Invocations(tools, tool_calls, outs,
                                IF tool_calls[k].name \in DOMAIN tools
                                THEN k ELSE k - 1)
    /\ node' = "llm"
    /\ acted' = acted + 1
    /\ UNCHANGED <<system, tool_list, tools, status, output, initial,
                   model_calls, model_input>>
    /\ UNCHANGED evalVars

\* The action node and the edge back to llm.
TakeAction ==
    /\ status = "running"
    /\ node = "action"
    /\ LET tool_calls == messages[Len(messages)].tool_calls
       IN  \E outs \in [1..Len(tool_calls) -> ToolOutcomes] :
            LET k == FirstFailure(tools, tool_calls, outs)
            IN  IF k = 0
                THEN /\ messages' = Add(messages, ToolResults(tool_calls, outs))
                     /\ tool_log' = tool_log \o
                            Invocations(tools, tool_calls, outs, Len(tool_calls))
                     /\ node' = "llm"
                     /\ acted' = acted + 1
                     /\ UNCHANGED status
                ELSE /\ status' = "raised"
                     /\ tool_log' = tool_log \o
                            Invocations(tools, tool_calls, outs,
                                IF tool_calls[k].name \in DOMAIN tools
                                THEN k ELSE k - 1)
                     /\ acted' = acted + 1
                     /\ UNCHANGED <<messages, node>>
    /\ UNCHANGED <<system, tool_list, tools, output, initial, model_calls,
                   model_input>>
    /\ UNCHANGED evalVars

EvalIdle ==
    /\ test_cases = <<>>
    /\ results = <<>>
    /\ idx = 1
    /\ pc = "idle"
    /\ nlq = PyNone
    /\ expected_sql = PyNone
    /\ generated_sql = PyNone
    /\ exact_match = FALSE
    /\ llm_judgment = PyNone
    /\ err = PyNone
    /\ returned = PyNone
    /\ events = <<>>

AgentNext ==
    \/ Invoke
    \/ CallOpenai
    \/ TakeAction

\* An agent has been constructed; evaluate is not running.
AgentInit == AgentStart /\ EvalIdle

AgentSpec == AgentInit /\ [][AgentNext]_vars

\* ======================================================= claims: evaluate
\* The record of the case just finished is the last of results, and events
\* still holds that case's external calls.
Recorded == pc \in {"loop", "returned"} /\ Len(results) >= 1

LastRecord == results[Len(results)]

HasError(r) == "error" \in DOMAIN r

EventsOf(kind) == SelectSeq(events, LAMBDA e : e.op = kind)

\* C1: whatever get_sql and the judge do, evaluate keeps one record per test
\* case handled so far, in input order, record i carrying the question and
\* the expected SQL of test case i; evaluate stops only by returning, and
\* then returns exactly these records, one per test case.
C1_OneRecordPerCase ==
    /\ Len(results) = idx - 1
    /\ Len(results) <= Len(test_cases)
    /\ \A i \in 1..Len(results) :
          /\ results[i].question = test_cases[i].question
          /\ results[i].expected_sql = test_cases[i].actual_query
    /\ (~ENABLED EvalNext) => pc = "returned"
    /\ pc = "returned" =>
          /\ returned = PyList(results)
          /\ Len(returned.v) = Len(test_cases)

C1_Witness ==
    /\ pc = "returned"
    /\ Len(returned.v) = 2
    /\ HasError(returned.v[1])
    /\ ~HasError(returned.v[2])
    /\ returned.v[1].question # returned.v[2].question

\* C2: per test case get_sql is called at most twice, the second time only
\* after the first call raised; a first call that raises followed by a call
\* that returns non-empty SQL gives a record without error field carrying
\* that SQL; two raising calls give a record with generated_sql absent and
\* the error text of the second failure, and the loop goes on to the next
\* case.
C2_RetryOnce ==
    LET g == EventsOf("get_sql")
    IN  /\ Len(g) <= 2
        /\ Len(g) = 2 => g[1].out.raises
        /\ (Recorded /\ Len(g) = 2 /\ ~g[2].out.raises /\ ~NoSql(g[2].out.value)) =>
              /\ ~HasError(LastRecord)
              /\ LastRecord.generated_sql = g[2].out.value.v[1]
        /\ (Recorded /\ Len(g) = 2 /\ g[2].out.raises) =>
              /\ HasError(LastRecord)
              /\ LastRecord.error = g[2].out.err
              /\ LastRecord.generated_sql = PyNone
              /\ idx = Len(results) + 1
              /\ pc = "loop" => (ENABLED LoopHead \/ ENABLED ReturnResults)
        /\ (pc \in {"validate", "judge", "append"} /\ Len(g) = 2) =>
              ~g[2].out.raises

C2_Witness ==
    LET g == EventsOf("get_sql")
    IN  /\ Recorded
        /\ Len(results) = 2
        /\ HasError(results[1])
        /\ results[1].error = "timeout"
        /\ Len(g) = 2
        /\ g[1].out.raises
        /\ ~HasError(results[2])

\* C3: judge_sql_similarity turns a raising completion call into the value
\* "Error" and never raises; a case whose judge call failed is recorded with
\* llm_judged_equivalent = "Error", the generated SQL, exact_match false and
\* no error field, and the loop goes on.
C3_JudgeFailureIsolated ==
    /\ \A out \in JudgeOutcomes :
          LET r == judge_sql_similarity("q", <<"a">>, <<"b">>, out)
          IN  /\ ~r.raises
              /\ out.raises => r.value = S_Error
    /\ LET j == EventsOf("judge")
       IN  (Recorded /\ Len(j) >= 1 /\ j[1].out.raises) =>
              /\ ~HasError(LastRecord)
              /\ LastRecord.llm_judged_equivalent = PyStr(S_Error)
              /\ LastRecord.generated_sql = PyStr(j[1].sql2)
              /\ ~LastRecord.exact_match
              /\ idx = Len(results) + 1
              /\ pc = "loop" => (ENABLED LoopHead \/ ENABLED ReturnResults)

C3_Witness ==
    LET j == EventsOf("judge")
    IN  /\ pc = "returned"
        /\ Len(results) = 2
        /\ results[1].llm_judged_equivalent = PyStr(S_Error)
        /\ Len(j) >= 1
        /\ j[1].out.raises
        /\ results[2].llm_judged_equivalent = PyStr(S_Error)

\* Two texts differ only in letter case and in surrounding whitespace: each
\* is a core between two runs of whitespace, the cores have the same length
\* and agree position by position up to the case of the letter.
CasePairs == { {"a", "A"}, {"b", "B"} }

SameLetter(c, d) == c = d \/ {c, d} \in CasePairs

AllWhitespace(s) == \A i \in 1..Len(s) : s[i] \in Whitespace

SameUpToCaseAndPadding(s, t) ==
    \E i1 \in 1..(Len(s) + 1), i2 \in 1..(Len(t) + 1) :
      \E j1 \in (i1 - 1)..Len(s), j2 \in (i2 - 1)..Len(t) :
        /\ AllWhitespace(SubSeq(s, 1, i1 - 1))
        /\ AllWhitespace(SubSeq(s, j1 + 1, Len(s)))
        /\ AllWhitespace(SubSeq(t, 1, i2 - 1))
        /\ AllWhitespace(SubSeq(t, j2 + 1, Len(t)))
        /\ j1 - i1 = j2 - i2
        /\ \A k \in 0..(j1 - i1) : SameLetter(s[i1 + k], t[i2 + k])

\* The text get_sql handed back for the case: the first element of the list
\* its last call returned, when that is a string.
GeneratedText ==
    LET g == EventsOf("get_sql")
        last == g[Len(g)].out
    IN  IF /\ Len(g) >= 1
           /\ ~last.raises
           /\ last.value.t = "list"
           /\ Len(last.value.v) >= 1
           /\ last.value.v[1].t = "str"
        THEN last.value.v[1]
        ELSE PyNone

ExactRecorded ==
    /\ LastRecord.exact_match = TRUE
    /\ LastRecord.llm_judged_equivalent = PyNone
    /\ EventsOf("judge") = <<>>

\* C4 as stated: whenever the generated text and the expected text differ
\* only in letter case and surrounding whitespace, the record has
\* exact_match true, no judgment, and no judge call was made.
C4_AsStated ==
    (/\ Recorded
     /\ GeneratedText # PyNone
     /\ SameUpToCaseAndPadding(GeneratedText.v, LastRecord.expected_sql))
    => ExactRecorded

\* C4 amended: the same for every non-empty generated text.
C4_ExactMatch ==
    (/\ Recorded
     /\ GeneratedText # PyNone
     /\ GeneratedText.v # <<>>
     /\ SameUpToCaseAndPadding(GeneratedText.v, LastRecord.expected_sql))
    => /\ ExactRecorded
       /\ ~HasError(LastRecord)
       /\ LastRecord.generated_sql = GeneratedText

C4_Witness ==
    /\ Recorded
    /\ GeneratedText = PyStr(<<" ", "A">>)
    /\ LastRecord.expected_sql = <<"a">>
    /\ LastRecord.exact_match

Verdicts == { PyStr(S_Equivalent), PyStr(S_NotEquivalent), PyStr(S_Error), PyNone }

\* C9: every record's llm_judged_equivalent is "Equivalent",
\* "Not Equivalent", "Error" or absent.
C9_JudgmentInContract ==
    \A i \in 1..Len(results) : results[i].llm_judged_equivalent \in Verdicts

\* C10: a record has an error field exactly when its generated_sql is
\* absent; such a record has exact_match false and no judgment and its case
\* made no judge call; a record without error field carries a non-empty
\* generated SQL string.
C10_FailureRecord ==
    /\ \A i \in 1..Len(results) :
          LET r == results[i]
          IN  /\ HasError(r) <=> r.generated_sql = PyNone
              /\ HasError(r) =>
                    /\ r.exact_match = FALSE
                    /\ r.llm_judged_equivalent = PyNone
              /\ ~HasError(r) =>
                    /\ r.generated_sql.t = "str"
                    /\ r.generated_sql.v # <<>>
    /\ (Recorded /\ HasError(LastRecord)) => EventsOf("judge") = <<>>
    /\ pc = "except" => EventsOf("judge") = <<>>

C10_Witness ==
    /\ Recorded
    /\ Len(results) = 2
    /\ HasError(results[2])
    /\ results[2].error = NoSqlError
    /\ ~HasError(results[1])
    /\ results[1].llm_judged_equivalent # PyNone

\* ======================================================= claims: Agent
Generating == status = "running" /\ node = "llm"

Acting == status = "running" /\ node = "action"

\* The tool calls of the message that sent the run to the action node.
Triggering == messages[Len(messages)].tool_calls

IsPrefix(s, t) == Len(s) <= Len(t) /\ SubSeq(t, 1, Len(s)) = s

\* What a step appends to the conversation and to the invocation log.
NewMessages == SubSeq(messages', Len(messages) + 1, Len(messages'))

NewInvocations == SubSeq(tool_log', Len(tool_log) + 1, Len(tool_log'))

\* str() of the values the tools of the model return.
TextOf(v) == IF v = PyInt(7) THEN "7" ELSE IF v = PyNone THEN "None" ELSE "?"

\* The step invokes the tool of every triggering call once, in order, and
\* appends one tool-result message per call, in order, the i-th with the
\* identifier and name of the i-th call and the text of its result.
FanOut ==
    LET tc == Triggering
        n == Len(tc)
        new == NewMessages
        inv == NewInvocations
    IN  /\ IsPrefix(messages, messages')
        /\ Len(new) = n
        /\ IsPrefix(tool_log, tool_log')
        /\ Len(inv) = n
        /\ \A i \in 1..n :
              /\ tc[i].name \in DOMAIN tools
              /\ inv[i].tool = tools[tc[i].name]
              /\ inv[i].args = tc[i].args
              /\ inv[i].id = tc[i].id
              /\ ~inv[i].out.raises
              /\ new[i] = ToolMessage(tc[i].id, tc[i].name,
                                      TextOf(inv[i].out.value))
        /\ \A i, j \in 1..n : i # j => new[i].tool_call_id # new[j].tool_call_id

C6_AppendOnly ==
    [][/\ IsPrefix(messages, messages')
       /\ status' # "idle" => IsPrefix(initial', messages')]_vars

C6_Witness ==
    /\ status = "running"
    /\ acted = 2
    /\ Len(messages) = Len(initial) + 4
    /\ IsPrefix(initial, messages)

\* The most recent assistant message of the input carries no tool calls.
InputTerminal ==
    \E i \in 1..Len(initial) :
        /\ initial[i].type = "ai"
        /\ \A j \in (i + 1)..Len(initial) : initial[j].type # "ai"
        /\ initial[i].tool_calls = <<>>

\* The first message of the run is a model response without tool calls.
FirstResponseFinal ==
    /\ Len(messages) > Len(initial)
    /\ messages[Len(initial) + 1].type = "ai"
    /\ messages[Len(initial) + 1].tool_calls = <<>>

\* C7 as stated: a run on an input whose most recent assistant message
\* carries no tool calls makes one model call, appends one message and has
\* no tool phase.
C7_AsStated ==
    (status # "idle" /\ InputTerminal) =>
        /\ acted = 0
        /\ tool_log = <<>>
        /\ model_calls <= 1
        /\ Len(messages) <= Len(initial) + 1
        /\ status = "returned" =>
              (model_calls = 1 /\ Len(messages) = Len(initial) + 1)

\* C7 amended: the same, when the model's response to that input carries no
\* tool calls.
C7_TerminalInput ==
    (status # "idle" /\ InputTerminal /\ FirstResponseFinal) =>
        /\ model_calls = 1
        /\ Len(messages) = Len(initial) + 1
        /\ acted = 0
        /\ tool_log = <<>>
        /\ status = "returned"
        /\ output = PyList(messages)

C7_Witness ==
    /\ status = "returned"
    /\ InputTerminal
    /\ Len(initial) = 4
    /\ initial[3].type = "tool"
    /\ model_calls = 1
    /\ Len(messages) = 5

\* C8: a run moves llm -> action exactly when the message just appended
\* carries tool calls, llm -> END exactly when it carries none, and
\* action -> llm whenever the action step completes, with all the tool
\* results appended; nothing leaves END but a new run; at END the run has
\* returned the whole conversation, which ends with the assistant message
\* without tool calls.
C8_Routing ==
    [][/\ (Generating /\ messages' # messages) =>
             /\ Len(messages') = Len(messages) + 1
             /\ IsPrefix(messages, messages')
             /\ messages'[Len(messages')].type = "ai"
             /\ node' = IF Len(messages'[Len(messages')].tool_calls) >= 1
                        THEN "action" ELSE "END"
       /\ (node = "llm" /\ node' # "llm") => (Generating /\ messages' # messages)
       /\ (Acting /\ status' = "running") =>
             /\ node' = "llm"
             /\ Len(NewMessages) = Len(Triggering)
             /\ \A i \in 1..Len(Triggering) :
                   /\ NewMessages[i].type = "tool"
                   /\ NewMessages[i].tool_call_id = Triggering[i].id
       /\ (node = "action" /\ node' # "action") => (Acting /\ status' = "running")
       /\ node = "END" =>
             \/ node' = "END"
             \/ /\ node' = "llm"
                /\ model_calls' = 0
                /\ initial' = output.v
       /\ node' = "END" =>
             /\ status' = "returned"
             /\ output' = PyList(messages')
             /\ messages'[Len(messages')].type = "ai"
             /\ messages'[Len(messages')].tool_calls = <<>>]_vars

C8_Witness ==
    /\ node = "END"
    /\ status = "returned"
    /\ acted = 1
    /\ model_calls = 2
    /\ output = PyList(messages)

\* ======================================================= claims: evaluate (2)
\* C11: when the first judge attempt of a case fails, evaluate sleeps 4 and
\* calls the judge a second time, and "Error" is recorded only if that
\* second attempt fails too.
C11_JudgeRetriedOnce ==
    LET j == EventsOf("judge")
    IN  (Recorded /\ Len(j) >= 1 /\ j[1].out.raises) =>
           /\ Len(j) = 2
           /\ \E i \in 1..(Len(events) - 2) :
                 /\ events[i] = j[1]
                 /\ events[i + 1] = SleepEv(4)
                 /\ events[i + 2] = j[2]
           /\ LastRecord.llm_judged_equivalent = PyStr(S_Error) => j[2].out.raises

\* The results get_sql can return that carry no SQL.
NoSqlValues ==
    { PyNone, PyList(<<>>), PyList(<<PyNone>>), PyList(<<PyStr(<<>>)>>) }

ReturnedNoSql(e) == ~e.out.raises /\ e.out.value \in NoSqlValues

\* C12: a get_sql call (the first or the retry) that returns None, an empty
\* list, or a list whose first element is None or "" is the last get_sql
\* call of its case; no judge call follows, and the case is recorded with
\* generated_sql absent, exact_match false, judgment absent and the error
\* text "Agent returned no SQL.".
C12_NoSqlRecorded ==
    LET g == EventsOf("get_sql")
    IN  /\ \A i \in 1..Len(g) : ReturnedNoSql(g[i]) => i = Len(g)
        /\ (Len(g) >= 1 /\ ReturnedNoSql(g[Len(g)])) =>
              /\ EventsOf("judge") = <<>>
              /\ pc \in {"validate", "except", "loop", "returned"}
              /\ Recorded =>
                    /\ HasError(LastRecord)
                    /\ LastRecord.error = "Agent returned no SQL."
                    /\ LastRecord.generated_sql = PyNone
                    /\ LastRecord.exact_match = FALSE
                    /\ LastRecord.llm_judged_equivalent = PyNone

C12_Witness ==
    LET g == EventsOf("get_sql")
    IN  /\ Recorded
        /\ Len(g) = 2
        /\ g[2].out = Return(PyList(<<PyStr(<<>>)>>))
        /\ LastRecord.error = "Agent returned no SQL."
        /\ Len(results) = 2
        /\ ~HasError(results[1])

\* The verdict judge_sql_similarity gives for what the completion call did:
\* "Error" for a raise, the reply without its surrounding whitespace
\* otherwise.
VerdictOf(out) ==
    IF out.raises THEN S_Error
    ELSE IF out.value = <<" ">> \o S_Equivalent \o <<"\n">> THEN S_Equivalent
    ELSE out.value

\* C14: whenever get_sql returned a non-empty text that is not the expected
\* text up to letter case and surrounding whitespace (a trailing semicolon
\* counts as a difference), the record has exact_match false, the judge was
\* called with (question, expected SQL, generated SQL) and its verdict is
\* the record's judgment; in every record without error field the judgment
\* is absent exactly when exact_match is true.
C14_JudgedWhenDifferent ==
    /\ (/\ Recorded
        /\ GeneratedText # PyNone
        /\ GeneratedText.v # <<>>
        /\ ~SameUpToCaseAndPadding(GeneratedText.v, LastRecord.expected_sql))
       => LET j == EventsOf("judge")
          IN  /\ ~HasError(LastRecord)
              /\ LastRecord.exact_match = FALSE
              /\ LastRecord.generated_sql = GeneratedText
              /\ Len(j) >= 1
              /\ \A i \in 1..Len(j) :
                    /\ j[i].nlq = LastRecord.question
                    /\ j[i].sql1 = LastRecord.expected_sql
                    /\ j[i].sql2 = GeneratedText.v
              /\ LastRecord.llm_judged_equivalent # PyNone
              /\ LastRecord.llm_judged_equivalent = PyStr(VerdictOf(j[Len(j)].out))
    /\ \A i \in 1..Len(results) :
          ~HasError(results[i]) =>
             (results[i].llm_judged_equivalent = PyNone
                <=> results[i].exact_match = TRUE)

C14_Witness ==
    /\ Recorded
    /\ GeneratedText = PyStr(<<"a", ";">>)
    /\ LastRecord.expected_sql = <<"a">>
    /\ LastRecord.exact_match = FALSE
    /\ LastRecord.llm_judged_equivalent = PyStr(S_Equivalent)
    /\ EventsOf("judge")[1].out.value # S_Equivalent

\* C15: the first get_sql call of a case directly follows the 2-unit pause
\* that opens the case, and a second get_sql call directly follows a 4-unit
\* pause that itself follows the first call, which raised; no get_sql call
\* is made without the pause before it.
C15_PauseBeforeGeneration ==
    /\ events # <<>> => events[1] = SleepEv(2)
    /\ \A i \in 1..Len(events) :
          events[i].op = "get_sql" =>
             \/ /\ i = 2
                /\ events[1] = SleepEv(2)
             \/ /\ i = 4
                /\ events[3] = SleepEv(4)
                /\ events[2].op = "get_sql"
                /\ events[2].out.raises
    /\ pc \in {"retry", "validate", "judge", "append", "except"} =>
          /\ Len(events) >= 2
          /\ events[2].op = "get_sql"

C15_Witness ==
    /\ Recorded
    /\ Len(results) = 2
    /\ Len(events) >= 4
    /\ events[1] = SleepEv(2)
    /\ events[2].op = "get_sql"
    /\ events[3] = SleepEv(4)
    /\ events[4].op = "get_sql"
    /\ ~events[4].out.raises

\* ======================================================= claims: Agent (2)
\* The messages the run has appended to its input.
Appended == SubSeq(messages, Len(initial) + 1, Len(messages))

\* C13: every model invocation receives the conversation accumulated so
\* far, preceded by one system message carrying the system prompt when the
\* prompt is not empty and by nothing when it is; the conversation itself
\* (and so the conversation returned) is the input of the run followed by
\* model and tool-result messages only.
C13_SystemPrompt ==
    [][/\ model_calls' = model_calls + 1 =>
             model_input' =
                IF system = "" THEN messages
                ELSE <<[type |-> "system", content |-> system]>> \o messages
       /\ status' # "idle" =>
             /\ IsPrefix(initial', messages')
             /\ \A i \in (Len(initial') + 1)..Len(messages') :
                   messages'[i].type \in {"ai", "tool"}
       /\ status' = "returned" => output' = PyList(messages')]_vars

C13_Witness ==
    /\ system = "sys"
    /\ status = "returned"
    /\ model_calls = 2
    /\ model_input[1] = [type |-> "system", content |-> "sys"]
    /\ Len(model_input) = Len(initial) + 3
    /\ \A i \in 1..Len(messages) : messages[i].type # "system"

\* C16: the workflow itself never stops a run: within the bound of the
\* model the llm node can always be entered from Generating and the action
\* node from Acting; a run whose model responses all carry tool calls is
\* never at END, and a model response without tool calls is the last
\* message of the run, which is then at END and has returned.
C16_NoIterationBound ==
    /\ (Generating /\ Len(messages) < MaxMsgs) => ENABLED CallOpenai
    /\ Acting => ENABLED TakeAction
    /\ status # "idle" =>
          \A i \in (Len(initial) + 1)..Len(messages) :
             (messages[i].type = "ai" /\ messages[i].tool_calls = <<>>) =>
                /\ i = Len(messages)
                /\ node = "END"
                /\ status = "returned"
    /\ node = "END" =>
          /\ Len(messages) > Len(initial)
          /\ messages[Len(messages)].type = "ai"
          /\ messages[Len(messages)].tool_calls = <<>>

C16_Witness ==
    /\ Generating
    /\ model_calls = 2
    /\ acted = 2
    /\ Len(Appended) = 4
    /\ \A i \in 1..Len(Appended) :
          Appended[i].type = "ai" => Appended[i].tool_calls # <<>>

\* The i-th new invocation is the one of the i-th triggering tool call.
InvocationOf(i) ==
    /\ i <= Len(NewInvocations)
    /\ Triggering[i].name \in DOMAIN tools
    /\ NewInvocations[i].tool = tools[Triggering[i].name]
    /\ NewInvocations[i].args = Triggering[i].args
    /\ NewInvocations[i].id = Triggering[i].id

\* C17: an Acting step whose triggering message has a tool call that names
\* no registered tool, or whose invocation raises, fails: with k the first
\* such call, the tools of calls 1..k-1 have been invoked (and returned),
\* calls k+1..N are not invoked, no tool-result message is appended, and
\* the run stays failed at the action node, never at END.
C17_ActingFailure ==
    [][/\ (Acting /\ acted' = acted + 1
             /\ \E i \in 1..Len(Triggering) :
                   Triggering[i].name \notin DOMAIN tools)
          => status' = "raised"
       /\ (Acting /\ status' = "raised") =>
             /\ messages' = messages
             /\ node' = "action"
             /\ \E k \in 1..Len(Triggering) :
                   /\ \A i \in 1..(k - 1) :
                         InvocationOf(i) /\ ~NewInvocations[i].out.raises
                   /\ \/ /\ Triggering[k].name \notin DOMAIN tools
                         /\ Len(NewInvocations) = k - 1
                      \/ /\ InvocationOf(k)
                         /\ NewInvocations[k].out.raises
                         /\ Len(NewInvocations) = k
       /\ status = "raised" => (status' = "raised" /\ node' # "END")]_vars

C17_Witness ==
    /\ status = "raised"
    /\ node = "action"
    /\ acted = 1
    /\ Len(Triggering) = 3
    /\ Triggering[2].name \notin DOMAIN tools
    /\ Len(tool_log) = 1
    /\ tool_log[1].id = Triggering[1].id
    /\ messages[Len(messages)].type = "ai"

\* C18: a run starts at the llm node whatever its input: until the first
\* model invocation nothing has been executed and the conversation is the
\* input, the first model invocation receives the input, and every tool
\* invocation is one of a tool call of the message the model returned last
\* in this run; the pending tool call of the input (identifier 0) is never
\* invoked.
C18_StartsGenerating ==
    [][/\ (status' = "running" /\ model_calls' = 0) =>
             /\ node' = "llm"
             /\ messages' = initial'
             /\ tool_log' = <<>>
       /\ (model_calls = 0 /\ model_calls' = 1) =>
             /\ Generating
             /\ IsPrefix(initial, model_input')
                   \/ IsPrefix(initial, Tail(model_input'))
             /\ Len(model_input') \in {Len(initial), Len(initial) + 1}
       /\ Len(tool_log') > Len(tool_log) =>
             /\ Acting
             /\ model_calls >= 1
             /\ Len(messages) > Len(initial)
             /\ \A i \in 1..Len(NewInvocations) :
                   /\ NewInvocations[i].id = Triggering[i].id
                   /\ NewInvocations[i].args = Triggering[i].args
                   /\ NewInvocations[i].tool.name = Triggering[i].name
       /\ \A i \in 1..Len(tool_log') : tool_log'[i].id # 0]_vars

C18_Witness ==
    /\ status = "running"
    /\ initial[Len(initial)].type = "ai"
    /\ initial[Len(initial)].tool_calls # <<>>
    /\ acted = 1
    /\ Len(tool_log) = 1
    /\ tool_log[1].id = 1
    /\ Len(messages) = Len(initial) + 2

\* Zero or more blocks, each an assistant message with N >= 1 tool calls
\* and the N tool-result messages of those calls, then at most one
\* assistant message.
RECURSIVE Blocks(_)
Blocks(s) ==
    IF s = <<>> THEN TRUE
    ELSE /\ s[1].type = "ai"
         /\ LET n == Len(s[1].tool_calls)
            IN  IF Len(s) = 1 THEN TRUE
                ELSE /\ n >= 1
                     /\ Len(s) >= n + 1
                     /\ \A i \in 1..n :
                           /\ s[i + 1].type = "tool"
                           /\ s[i + 1].tool_call_id = s[1].tool_calls[i].id
                     /\ Blocks(SubSeq(s, n + 2, Len(s)))

\* The assistant messages the run has appended.
AssistantAppended ==
    Cardinality({i \in 1..Len(Appended) : Appended[i].type = "ai"})

\* C19 as stated: the appended messages form complete blocks followed by
\* at most one assistant message, and the number of model invocations
\* equals the number of assistant messages appended.
C19_AsStated ==
    status # "idle" =>
       /\ Blocks(Appended)
       /\ model_calls = AssistantAppended

\* C19: the appended messages form complete blocks followed by at most one
\* assistant message; the number of model invocations that returned equals
\* the number of assistant messages appended: the count of invocations
\* exceeds it, by one, exactly in a run that failed at the llm node.
C19_ConversationShape ==
    status # "idle" =>
       /\ Blocks(Appended)
       /\ IF status = "raised" /\ node = "llm"
          THEN model_calls = AssistantAppended + 1
          ELSE model_calls = AssistantAppended

C19_Witness ==
    /\ status = "returned"
    /\ acted = 1
    /\ model_calls = 2
    /\ Len(Appended) = 4
    /\ Len(Appended[1].tool_calls) = 2
    /\ Appended[2].type = "tool"
    /\ Appended[3].type = "tool"
    /\ Appended[4].tool_calls = <<>>

\* The tool supplied last under name n at construction.
LastSupplied(n) ==
    tool_list[CHOOSE i \in 1..Len(tool_list) :
                 /\ tool_list[i].name = n
                 /\ \A j \in 1..Len(tool_list) :
                       tool_list[j].name = n => j <= i]

\* C20: the registry holds, for every name of the tools supplied at
\* construction, the last tool supplied under it; every tool call is
\* dispatched to that tool; no step of a run changes the registry.
C20_Registry ==
    [][/\ tools' = tools
       /\ tool_list' = tool_list
       /\ DOMAIN tools = {tool_list[i].name : i \in 1..Len(tool_list)}
       /\ \A n \in DOMAIN tools : tools[n] = LastSupplied(n)
       /\ Len(tool_log') > Len(tool_log) =>
             \A i \in 1..Len(NewInvocations) :
                NewInvocations[i].tool = LastSupplied(Triggering[i].name)]_vars

C20_Witness ==
    /\ tool_list = <<Tool("a", 1), Tool("a", 2)>>
    /\ Len(tool_log) = 2
    /\ \A i \in 1..Len(tool_log) : tool_log[i].tool = Tool("a", 2)
    /\ status = "returned"

====
